---------------------------- MODULE Spec2Model ----------------------------
(***************************************************************************)
(* Model of code/model.ipynb: the price-regression notebook.               *)
(*                                                                         *)
(* The notebook is a straight sequence of cells.  Each cell that changes   *)
(* the kernel's namespace is one action; `pc' names the next cell.  The    *)
(* library calls of a cell (pandas, scikit-learn 0.19, numpy's legacy      *)
(* RandomState) are operators that compute what the call computes:         *)
(*   - read_csv(na_values='?'), dropna, select_dtypes, get_dummies         *)
(*   - train_test_split = ShuffleSplit over a Fisher-Yates permutation     *)
(*     drawn from a RandomState (the low bits of the MT19937 output        *)
(*     stream of each seed are tabulated),                                 *)
(*   - Pipeline(Imputer(median), StandardScaler, Ridge), KFold(5),         *)
(*     GridSearchCV / RandomizedSearchCV with iid=True and refit=True.     *)
(* Floating point is replaced by exact arithmetic on integers of any size: *)
(* feature values are kept doubled (a median may be a half), the normal    *)
(* equations of Ridge are solved exactly, and a mean absolute error is     *)
(* kept in units of 1/Base^ScoreLimbs of a price unit, rounded down.       *)
(* Where the rounding of the floating point operations decides a result    *)
(* (Ridge with alpha = 0 on dependent columns, for a row outside the range *)
(* of the training rows), the result is recorded as not exact and what     *)
(* depends on it is a choice made anew at each fit.                        *)
(***************************************************************************)
EXTENDS Integers, Sequences, FiniteSets, TLC

(***************************************************************************)
(* Bounds of the model.                                                    *)
(***************************************************************************)
\* Largest number of data rows of the input file.
MaxRows == 9
\* Number of executions of the notebook (kernel restart and run all).
MaxRuns == 2
\* Number of digits in base Base kept after the point of a mean absolute
\* error.
ScoreLimbs == 3

(***************************************************************************)
(* Constants of the notebook.                                              *)
(***************************************************************************)
\* cell 2: random_state = 0
random_state == 0
\* cell 2: test_size = 0.33, in hundredths
test_size == 33
\* cells 20, 28, 40: cv = 5
cv == 5
\* cell 28: n_points = 20
n_points == 20
\* cell 25: GradientBoostingRegressor(n_estimators=3000)
n_estimators == 3000
\* cells 20, 40: alpha_range, in units of 1/AlphaUnit
AlphaUnit == 10000
alpha_range == <<100000, 10000, 1000, 100, 10, 1, 0>>
\* cell 28: the search space of the randomized search; learning rates in
\* hundredths, feature fractions in tenths, sp_randint(low, high) as
\* <<low, high>> with high exclusive
learning_rate_vals == <<10, 5, 2, 1>>
max_depth_dist == <<4, 6>>
min_samples_leaf_dist == <<3, 17>>
max_features_vals == <<10, 3, 1>>

\* The missing marker of a float column (every number of the file is >= 0)
\* and of an object column.
NaN == -1
NaNObj == "nan"
\* random_state=None: use numpy's global generator.
None == -1

(***************************************************************************)
(* Helpers on sequences.                                                   *)
(***************************************************************************)
Range(s) == {s[i] : i \in 1..Len(s)}

\* The sequence s with its elements evaluated (a function written
\* [i \in 1..n |-> e] is otherwise evaluated again at each application).
AsSeq(s) == s \o <<>>

\* F(x), with x evaluated once.
With(x, F(_)) == CHOOSE r \in {F(v) : v \in {x}} : TRUE

RECURSIVE SumSeq(_)
SumSeq(s) == IF s = <<>> THEN 0 ELSE Head(s) + SumSeq(Tail(s))

RECURSIVE FilterSeq(_, _)
\* The subsequence of s whose elements are in the set keep.
FilterSeq(s, keep) ==
    IF s = <<>> THEN <<>>
    ELSE IF Head(s) \in keep THEN <<Head(s)>> \o FilterSeq(Tail(s), keep)
         ELSE FilterSeq(Tail(s), keep)

RECURSIVE Insert(_, _)
Insert(x, s) ==
    IF s = <<>> THEN <<x>>
    ELSE IF x <= Head(s) THEN <<x>> \o s
         ELSE <<Head(s)>> \o Insert(x, Tail(s))

RECURSIVE SortAsc(_)
SortAsc(s) == IF s = <<>> THEN <<>> ELSE Insert(Head(s), SortAsc(Tail(s)))

RECURSIVE DropNaN(_)
\* The values of s that are present, in their order.
DropNaN(s) ==
    IF s = <<>> THEN <<>>
    ELSE IF Head(s) = NaN THEN DropNaN(Tail(s))
         ELSE <<Head(s)>> \o DropNaN(Tail(s))

Abs(x) == IF x < 0 THEN -x ELSE x

\* Fractions [num, den] are kept in lowest terms.
RECURSIVE GCD(_, _)
GCD(a, b) == IF b = 0 THEN a ELSE GCD(b, a % b)

Frac(num, den) ==
    LET g == GCD(Abs(num), den)
    IN [num |-> num \div g, den |-> den \div g]

\* The value of a fraction that is not defined (a division by 0).
NoRatio == [num |-> 0, den |-> 0]

(***************************************************************************)
(* Integers of any size.  The sums of products met when the normal         *)
(* equations of Ridge are solved exactly do not fit a machine word, so a   *)
(* natural number is kept as the sequence of its digits in base Base, the  *)
(* least significant first and the most significant not 0 (0 is <<>>), and *)
(* an integer as a sign and a natural number.                              *)
(***************************************************************************)
Base == 10000

Max(a, b) == IF a >= b THEN a ELSE b

\* The digit of a at position i; 0 above the most significant.
Limb(a, i) == IF i <= Len(a) THEN a[i] ELSE 0

RECURSIVE TopDigit(_, _)
\* The position of the most significant digit of a[1..i] that is not 0.
TopDigit(a, i) ==
    IF i = 0 THEN 0 ELSE IF a[i] # 0 THEN i ELSE TopDigit(a, i - 1)

\* a without its leading zero digits.
NatNorm(a) == SubSeq(a, 1, TopDigit(a, Len(a)))

RECURSIVE Carry(_, _, _, _)
\* Carrying from column k on: every column keeps its value modulo Base and
\* hands the rest to the next column; acc holds the digits below column k.
Carry(c, k, carry, acc) ==
    IF k > Len(c)
    THEN IF carry = 0 THEN acc
         ELSE Carry(c, k, carry \div Base, Append(acc, carry % Base))
    ELSE Carry(c, k + 1, (c[k] + carry) \div Base,
               Append(acc, (c[k] + carry) % Base))

\* The natural number whose columns (of weight Base^(k-1)) hold the
\* non-negative integers c[k].
NatOfColumns(c) == NatNorm(Carry(c, 1, 0, <<>>))

NatAdd(a, b) ==
    Carry([k \in 1..Max(Len(a), Len(b)) |-> Limb(a, k) + Limb(b, k)],
          1, 0, <<>>)

RECURSIVE CmpFrom(_, _, _)
\* -1, 0, 1 as a[1..i] < b[1..i], a[1..i] = b[1..i], a[1..i] > b[1..i]
CmpFrom(a, b, i) ==
    IF i = 0 THEN 0
    ELSE IF a[i] # b[i] THEN (IF a[i] < b[i] THEN -1 ELSE 1)
    ELSE CmpFrom(a, b, i - 1)

\* -1, 0, 1 as a < b, a = b, a > b
NatCmp(a, b) ==
    IF Len(a) # Len(b) THEN (IF Len(a) < Len(b) THEN -1 ELSE 1)
    ELSE CmpFrom(a, b, Len(a))

RECURSIVE Borrow(_, _, _, _, _)
\* Borrowing from column k on: t is column k of a - b less the borrow of the
\* column below; acc holds the digits below column k.
Borrow(a, b, k, t, acc) ==
    IF k = Len(a) THEN Append(acc, t)
    ELSE Borrow(a, b, k + 1,
                a[k + 1] - Limb(b, k + 1) - (IF t < 0 THEN 1 ELSE 0),
                Append(acc, IF t < 0 THEN t + Base ELSE t))

\* a - b for a >= b
NatSub(a, b) ==
    IF b = <<>> THEN a
    ELSE NatNorm(Borrow(a, b, 1, a[1] - b[1], <<>>))

\* a * m for an integer m >= 0 with Base * m within a machine word
NatMulSmall(a, m) == NatOfColumns([k \in 1..Len(a) |-> a[k] * m])

RECURSIVE ColumnSum(_, _, _, _)
\* The sum of a[i] * b[k + 1 - i] over i >= from: column k of a * b.
ColumnSum(a, b, k, from) ==
    IF from > Len(a) \/ from > k THEN 0
    ELSE (IF k + 1 - from <= Len(b) THEN a[from] * b[k + 1 - from] ELSE 0)
         + ColumnSum(a, b, k, from + 1)

NatMul(a, b) ==
    IF a = <<>> \/ b = <<>> THEN <<>>
    ELSE NatOfColumns([k \in 1..(Len(a) + Len(b) - 1) |->
                         ColumnSum(a, b, k, 1)])

\* a * Base^k
NatShift(a, k) == IF a = <<>> THEN <<>> ELSE [i \in 1..k |-> 0] \o a

RECURSIVE DivCorrect(_, _, _, _)
\* The greatest q <= qh with d * q <= r, given t = d * qh, and r - d * q.
DivCorrect(r, d, qh, t) ==
    IF NatCmp(t, r) <= 0 THEN [q |-> qh, r |-> NatSub(r, t)]
    ELSE DivCorrect(r, d, qh - 1, NatSub(t, d))

\* The estimate of r \div d from the leading digits: never too small, and at
\* most 2 too great when the leading digit of d is at least Base \div 2.
DivEstimate(r, d) ==
    LET k == Len(d)
        qh == (Limb(r, k + 1) * Base + Limb(r, k)) \div d[k]
    IN IF qh > Base - 1 THEN Base - 1 ELSE qh

\* r \div d and r % d for r < d * Base
DivStep(r, d) ==
    IF NatCmp(r, d) < 0 THEN [q |-> 0, r |-> r]
    ELSE LET qh == DivEstimate(r, d)
         IN DivCorrect(r, d, qh, NatMulSmall(d, qh))

RECURSIVE DivLoop(_, _, _, _)
\* Long division: the digits a[1..i] are still to bring down, acc holds the
\* digits of the quotient found and the remainder so far.
DivLoop(a, i, acc, d) ==
    IF i = 0 THEN acc
    ELSE LET step == DivStep(NatNorm(<<a[i]>> \o acc.r), d)
         IN DivLoop(a, i - 1, [q |-> <<step.q>> \o acc.q, r |-> step.r], d)

\* floor(a / d) for d > 0.  Both are first scaled by f, which makes the
\* leading digit of d at least Base \div 2.
NatDiv(a, d) ==
    LET f == Base \div (d[Len(d)] + 1)
        af == NatMulSmall(a, f)
    IN NatNorm(DivLoop(af, Len(af), [q |-> <<>>, r |-> <<>>],
                       NatMulSmall(d, f)).q)

\* Integers: a sign and a natural number; 0 is not negative.
ZMake(neg, mag) == [neg |-> neg /\ mag # <<>>, mag |-> mag]

ZZero == ZMake(FALSE, <<>>)

ZOfInt(v) == ZMake(v < 0, NatOfColumns(<<Abs(v)>>))

ZNeg(x) == ZMake(~ x.neg, x.mag)

ZAdd(x, y) ==
    IF x.neg = y.neg THEN ZMake(x.neg, NatAdd(x.mag, y.mag))
    ELSE IF NatCmp(x.mag, y.mag) >= 0 THEN ZMake(x.neg, NatSub(x.mag, y.mag))
         ELSE ZMake(y.neg, NatSub(y.mag, x.mag))

ZSub(x, y) == ZAdd(x, ZNeg(y))

ZMul(x, y) == ZMake(x.neg # y.neg, NatMul(x.mag, y.mag))

\* x * v for an integer v with Base * |v| within a machine word
ZMulInt(x, v) == ZMake(x.neg # (v < 0), NatMulSmall(x.mag, Abs(v)))

ZLess(x, y) ==
    IF x.neg # y.neg THEN x.neg
    ELSE IF x.neg THEN NatCmp(x.mag, y.mag) > 0
         ELSE NatCmp(x.mag, y.mag) < 0

RECURSIVE ZSum(_)
ZSum(s) == IF s = <<>> THEN ZZero ELSE ZAdd(Head(s), ZSum(Tail(s)))

(***************************************************************************)
(* Scores.  A score is a fraction [num, den] of an integer of any size     *)
(* over a machine integer den > 0, in units of 1/Base^ScoreLimbs of a      *)
(* price unit (squared units for a squared deviation).  The fractions of   *)
(* one search have the same denominator, so equal values are equal         *)
(* records.                                                                *)
(***************************************************************************)
\* The value of what is not defined (a mean over no samples).
Undefined == [num |-> ZZero, den |-> 0]

\* The value of what the model does not represent.
NotRepresented == [num |-> ZZero, den |-> -1]

FracNeg(a) == [num |-> ZNeg(a.num), den |-> a.den]

\* Comparison of two fractions with positive denominators.
FracLess(a, b) ==
    IF a.den = b.den THEN ZLess(a.num, b.num)
    ELSE ZLess(ZMulInt(a.num, b.den), ZMulInt(b.num, a.den))


(***************************************************************************)
(* The input file.  A row is <<price, x, c>> as the tokens of the file:    *)
(* price is the target, x a numeric attribute, c a categorical attribute;  *)
(* '?' stands for a missing value in any field.  The files considered are  *)
(* the first n rows of a fixed catalogue, the same with one value of x in  *)
(* every row, and the first MaxRows rows with one field replaced.          *)
(***************************************************************************)
Catalogue ==
    << <<"5", "1", "a">>, <<"3", "0", "b">>, <<"8", "3", "a">>,
       <<"2", "0", "a">>, <<"6", "2", "b">>, <<"9", "3", "b">>,
       <<"4", "1", "a">>, <<"7", "2", "a">>, <<"1", "0", "b">>,
       <<"6", "3", "a">>, <<"3", "1", "b">>, <<"8", "2", "b">> >>

CatalogueRow(i) == Catalogue[((i - 1) % Len(Catalogue)) + 1]

FieldTokens == << {"?", "1", "9"}, {"?", "0", "3"}, {"?", "a", "b", "c"} >>

BaseFile(n) == [i \in 1..n |-> CatalogueRow(i)]

\* The files of n rows with the field f of one row replaced.
FilesReplacing(n, f) ==
    { [BaseFile(n) EXCEPT ![i][f] = t] : i \in 1..n, t \in FieldTokens[f] }

\* The file of n rows with the same value of the numeric feature in every row.
FlatFile(n) == [i \in 1..n |-> [CatalogueRow(i) EXCEPT ![2] = "1"]]

\* The input files: those of every length up to MaxRows, with the catalogue's
\* values of x or with one value of x, and those of MaxRows rows with one field
\* replaced.
Files ==
    { BaseFile(n) : n \in 0..MaxRows } \cup { FlatFile(n) : n \in 0..MaxRows }
        \cup UNION { FilesReplacing(MaxRows, f) : f \in 1..3 }

(***************************************************************************)
(* cell 4: pd.read_csv(data_path, na_values='?').  Digit tokens become     *)
(* numbers, '?' becomes the missing marker of the column, other tokens     *)
(* stay text.  The index label of a row is its position in the file,       *)
(* counted from 0.                                                         *)
(***************************************************************************)
ParseInt == [t \in {"0", "1", "2", "3", "4", "5", "6", "7", "8", "9"} |->
               CASE t = "0" -> 0 [] t = "1" -> 1 [] t = "2" -> 2
                 [] t = "3" -> 3 [] t = "4" -> 4 [] t = "5" -> 5
                 [] t = "6" -> 6 [] t = "7" -> 7 [] t = "8" -> 8
                 [] t = "9" -> 9]

ParseNumber(t) == IF t = "?" THEN NaN ELSE ParseInt[t]

ParseText(t) == IF t = "?" THEN NaNObj ELSE t

read_csv(file) ==
    AsSeq([i \in 1..Len(file) |->
             [idx |-> i - 1,
              price |-> ParseNumber(file[i][1]),
              x |-> ParseNumber(file[i][2]),
              c |-> ParseText(file[i][3])]])

(***************************************************************************)
(* cell 6: data.dropna(subset=["price"]): the rows whose price is present, *)
(* in their order, with their index labels.                                *)
(***************************************************************************)
\* dropna's result not assigned back: every row is kept.
dropna_price_kept(frame) == frame

RECURSIVE dropna_price(_)
dropna_price(frame) ==
    IF frame = <<>> THEN <<>>
    ELSE IF Head(frame).price = NaN THEN dropna_price(Tail(frame))
         ELSE <<Head(frame)>> \o dropna_price(Tail(frame))

(***************************************************************************)
(* numpy's legacy RandomState.  A generator is the seed it was made from   *)
(* and the number of 32-bit words drawn so far.  With at most 16 rows and  *)
(* at most 16 values per hyperparameter, every draw is masked to its low   *)
(* four bits, so only these bits of the MT19937 output are tabulated:      *)
(* MT19937Low4[seed + 1][k] is the k-th output of RandomState(seed) & 15.  *)
(***************************************************************************)
MT19937Low4 ==
  <<
    <<
       12, 15, 5, 0, 3, 11, 3, 7, 9, 3, 5, 2, 4, 7, 6, 8, 8, 12, 10, 1, 6, 7, 7, 14,
       8, 1, 5, 9, 13, 8, 9, 4, 3, 0, 3, 5, 14, 15, 15, 0, 2, 3, 8, 1, 3, 13, 3, 3,
       14, 7, 0, 1, 9, 9, 15, 0, 15, 10, 4, 7, 3, 14, 11, 2, 7, 12, 2, 0, 0, 4, 5, 5,
       6, 8, 4, 1, 15, 4, 9, 10, 10, 15, 8, 1, 1, 7, 9, 9, 3, 6, 7, 11, 14, 2, 11, 0,
       14, 3, 5, 12, 9, 10, 4, 11, 4, 6, 4, 15, 15, 4, 3, 12, 4, 4, 8, 14, 15, 4, 3, 10,
       7, 15, 13, 5, 5, 0, 1, 5, 9, 3, 0, 15, 5, 14, 0, 1, 2, 4, 2, 0, 13, 3, 2, 10,
       13, 0, 7, 5, 9, 15, 0, 10, 2, 11, 10, 15, 7, 11, 2, 9, 2, 14, 3, 14, 11, 3, 2, 14,
       3, 4, 1, 2, 11, 14, 9, 10, 1, 4, 10, 6, 11, 8, 11, 2, 3, 0, 0, 6, 0, 6, 3, 14,
       10, 3, 8, 12, 8, 13, 14, 8, 13, 2, 3, 14, 2, 11, 13, 0, 8, 8, 3, 15, 8, 10, 2, 8,
       4, 3, 12, 13, 14, 0, 4, 3, 13, 11, 12, 6, 13, 9, 13, 11, 8, 0, 8, 13, 5, 14, 9, 0,
       12, 9, 6, 5, 13, 3, 1, 8, 0, 4, 11, 11, 9, 6, 5, 15 >>,
    <<
       5, 11, 12, 8, 15, 9, 11, 5, 15, 0, 0, 1, 12, 7, 13, 12, 6, 9, 2, 4, 14, 5, 2, 4,
       11, 12, 10, 12, 13, 14, 2, 4, 7, 7, 9, 1, 7, 14, 0, 6, 13, 9, 9, 7, 15, 13, 6, 9,
       1, 0, 12, 1, 8, 8, 13, 3, 15, 10, 9, 8, 14, 7, 3, 6, 5, 1, 9, 3, 4, 8, 1, 11,
       12, 10, 4, 0, 13, 3, 9, 2, 15, 0, 4, 9, 15, 2, 7, 7, 10, 9, 8, 6, 9, 3, 7, 14,
       7, 13, 4, 11, 5, 9, 3, 6, 8, 0, 2, 10, 7, 15, 15, 7, 9, 7, 3, 12, 10, 14, 14, 0,
       8, 7, 7, 1, 1, 13, 3, 0, 8, 13, 13, 6, 4, 5, 6, 2, 12, 11, 5, 11, 7, 13, 8, 11,
       12, 11, 4, 14, 4, 7, 7, 13, 4, 9, 0, 12, 2, 0, 13, 10, 7, 12, 1, 7, 9, 8, 10, 12,
       4, 0, 12, 1, 14, 12, 9, 8, 2, 3, 1, 2, 12, 12, 7, 2, 10, 6, 0, 9, 2, 6, 6, 2,
       7, 7, 0, 6, 15, 5, 1, 10, 4, 6, 0, 6, 5, 13, 1, 2, 1, 5, 4, 10, 0, 7, 13, 8,
       9, 5, 7, 0, 9, 3, 9, 1, 14, 13, 4, 4, 11, 6, 13, 8, 11, 15, 8, 11, 9, 2, 7, 5,
       5, 4, 5, 8, 5, 8, 13, 11, 1, 1, 15, 13, 8, 14, 13, 7 >>,
    <<
       8, 15, 13, 8, 6, 11, 2, 11, 8, 7, 2, 1, 15, 11, 5, 15, 15, 15, 10, 4, 12, 4, 5, 7,
       3, 6, 4, 10, 11, 3, 7, 6, 10, 1, 10, 12, 15, 3, 5, 8, 4, 14, 6, 15, 3, 9, 15, 2,
       0, 4, 14, 12, 2, 4, 10, 15, 15, 1, 7, 15, 14, 8, 2, 13, 10, 15, 9, 13, 8, 7, 1, 6,
       8, 10, 5, 9, 9, 9, 14, 12, 10, 14, 3, 0, 11, 0, 10, 2, 8, 12, 14, 10, 8, 2, 12, 9,
       6, 5, 6, 6, 6, 3, 8, 2, 1, 4, 8, 1, 13, 6, 9, 13, 5, 1, 2, 4, 10, 7, 6, 11,
       4, 5, 10, 8, 10, 3, 11, 0, 0, 5, 7, 11, 5, 11, 13, 0, 8, 6, 10, 5, 11, 1, 15, 14,
       13, 10, 7, 11, 15, 15, 4, 3, 6, 11, 1, 4, 10, 15, 11, 0, 14, 8, 10, 5, 12, 4, 15, 11,
       14, 2, 9, 7, 1, 9, 2, 1, 15, 11, 14, 0, 7, 1, 8, 12, 14, 11, 9, 11, 14, 14, 14, 15,
       0, 7, 0, 5, 11, 10, 2, 5, 10, 1, 15, 3, 13, 12, 3, 1, 8, 11, 6, 8, 15, 11, 1, 11,
       5, 11, 15, 7, 0, 9, 12, 15, 10, 1, 5, 9, 15, 2, 0, 10, 0, 4, 6, 3, 15, 1, 13, 8,
       5, 9, 5, 4, 2, 7, 8, 7, 3, 11, 10, 4, 8, 6, 3, 8 >>
  >>

RandomState(seed) == [seed |-> seed, pos |-> 0]

\* rk_random(state) & 15, and the generator after the draw.
rk_random_low4(rng) ==
    [val |-> MT19937Low4[rng.seed + 1][rng.pos + 1],
     rng |-> [rng EXCEPT !.pos = @ + 1]]

\* The smallest bit mask >= max, for max < 16.
BitMask(max) ==
    IF max = 0 THEN 0 ELSE IF max < 2 THEN 1 ELSE IF max < 4 THEN 3
    ELSE IF max < 8 THEN 7 ELSE 15

RECURSIVE rk_interval(_, _)
\* rk_interval(max, state): a value in 0..max by masked rejection.
rk_interval(max, rng) ==
    IF max = 0 THEN [val |-> 0, rng |-> rng]
    ELSE LET d == rk_random_low4(rng)
             v == d.val % (BitMask(max) + 1)
         IN IF v <= max THEN [val |-> v, rng |-> d.rng]
            ELSE rk_interval(max, d.rng)

\* s with the elements at the 0-based positions i and j exchanged.
Swap(s, i, j) == [s EXCEPT ![i + 1] = s[j + 1], ![j + 1] = s[i + 1]]

RECURSIVE shuffle(_, _, _)
\* RandomState.shuffle: for i in reversed(range(1, n)): j = rk_interval(i);
\* x[i], x[j] = x[j], x[i].  Called with i = n - 1.
shuffle(x, i, rng) ==
    IF i < 1 THEN [perm |-> x, rng |-> rng]
    ELSE LET d == rk_interval(i, rng)
         IN shuffle(Swap(x, i, d.val), i - 1, d.rng)

\* RandomState.permutation(n): shuffle(arange(n)).
permutation(n, rng) == shuffle([k \in 1..n |-> k - 1], n - 1, rng)

\* RandomState.randint(n): a value in 0..n-1.
randint(n, rng) == rk_interval(n - 1, rng)

(***************************************************************************)
(* sklearn.utils.check_random_state(seed): None gives numpy's global       *)
(* generator (np_random, shared and advanced by every use), an integer a   *)
(* new RandomState(seed).                                                  *)
(***************************************************************************)
\* The seed ignored: always the global generator.
check_random_state_global(seed, np_random) == np_random

check_random_state(seed, np_random) ==
    IF seed = None THEN np_random ELSE RandomState(seed)

\* random_state left out of the call: the split draws from the global generator.
split_random_state_none == None

\* The seed a cell hands to train_test_split.
split_random_state == random_state

(***************************************************************************)
(* cells 8, 38: train_test_split(frame, test_size, random_state).          *)
(* ShuffleSplit: n_test = ceil(test_size * n), n_train = n - n_test, the   *)
(* held-out rows are the first n_test positions of the permutation, the    *)
(* training rows the next n_train, each taken by position in that order.   *)
(***************************************************************************)
\* The share rounded down: floor(test_size * n).
n_test_of_floor(n) == (test_size * n) \div 100

n_test_of(n) == (test_size * n + 99) \div 100

\* The training slice starting one position early: permutation[n_test - 1:].
train_test_split_overlap(frame, seed, np_random) ==
    LET n == Len(frame)
        nte == n_test_of(n)
        p == permutation(n, check_random_state(seed, np_random))
        first == IF nte > 0 THEN nte - 1 ELSE 0
    IN [tr |-> AsSeq([k \in 1..(n - first) |-> frame[p.perm[first + k] + 1]]),
        te |-> AsSeq([k \in 1..nte |-> frame[p.perm[k] + 1]]),
        np_random |-> IF seed = None THEN p.rng ELSE np_random]

train_test_split(frame, seed, np_random) ==
    LET n == Len(frame)
        nte == n_test_of(n)
        p == permutation(n, check_random_state(seed, np_random))
    IN [tr |-> AsSeq([k \in 1..(n - nte) |-> frame[p.perm[nte + k] + 1]]),
        te |-> AsSeq([k \in 1..nte |-> frame[p.perm[k] + 1]]),
        np_random |-> IF seed = None THEN p.rng ELSE np_random]

(***************************************************************************)
(* cell 10: tr.select_dtypes(include=['int64', 'float64']): the numeric    *)
(* columns price and x; the object column c is dropped.                    *)
(***************************************************************************)
select_dtypes(frame) ==
    AsSeq([i \in 1..Len(frame) |->
             [idx |-> frame[i].idx, price |-> frame[i].price, x |-> frame[i].x]])

(***************************************************************************)
(* cell 32: pd.get_dummies(data).  The object column c is replaced by one  *)
(* indicator column per distinct value present in the column (a missing    *)
(* value is no value: dummy_na=False); a row has 1 in the column of its    *)
(* value.  Rows and index labels are kept.                                 *)
(***************************************************************************)
\* The text values of the file, in sorted order.
LevelOrder == <<"a", "b", "c">>

Levels(frame) == {frame[i].c : i \in 1..Len(frame)} \ {NaNObj}

RECURSIVE DropMissingText(_)
DropMissingText(frame) ==
    IF frame = <<>> THEN <<>>
    ELSE IF Head(frame).c = NaNObj THEN DropMissingText(Tail(frame))
         ELSE <<Head(frame)>> \o DropMissingText(Tail(frame))

\* get_dummies(data.dropna()): the rows with a missing text value are lost.
get_dummies_dropna(frame) ==
    LET kept == DropMissingText(frame)
        levels == Levels(kept)
    IN AsSeq([i \in 1..Len(kept) |->
                [idx |-> kept[i].idx, price |-> kept[i].price,
                 x |-> kept[i].x,
                 dummies |-> [v \in levels |->
                                IF kept[i].c = v THEN 1 ELSE 0]]])

get_dummies(frame) ==
    LET levels == Levels(frame)
    IN AsSeq([i \in 1..Len(frame) |->
                [idx |-> frame[i].idx, price |-> frame[i].price,
                 x |-> frame[i].x,
                 dummies |-> [v \in levels |->
                                IF frame[i].c = v THEN 1 ELSE 0]]])

(***************************************************************************)
(* cells 22, 29, 41: X = tr.drop(['price'], axis=1), y = tr.price.  A      *)
(* sample is the index label of its row, its target y and its feature      *)
(* values f: the column x, followed by the indicator columns in the        *)
(* (sorted) order get_dummies gives them.                                  *)
(***************************************************************************)
drop_price(frame) ==
    AsSeq([i \in 1..Len(frame) |->
             [idx |-> frame[i].idx, y |-> frame[i].price, f |-> <<frame[i].x>>]])

drop_price_cat(frame) ==
    AsSeq([i \in 1..Len(frame) |->
             LET cols == FilterSeq(LevelOrder, DOMAIN frame[i].dummies)
             IN [idx |-> frame[i].idx, y |-> frame[i].price,
                 f |-> <<frame[i].x>> \o
                       [j \in 1..Len(cols) |-> frame[i].dummies[cols[j]]]]])

Idx(samples) == {samples[i].idx : i \in 1..Len(samples)}

NCols(samples) == IF samples = <<>> THEN 0 ELSE Len(samples[1].f)

(***************************************************************************)
(* Imputer(strategy='median') and StandardScaler, fitted on the samples    *)
(* given to fit.  Feature values are kept doubled, so that a median (the   *)
(* mean of the two middle values of an even count) is an integer.          *)
(***************************************************************************)
\* Twice the median of the values present in column j; NaN if none is.
Median2(samples, j) ==
    LET present == SortAsc(DropNaN([i \in 1..Len(samples) |-> samples[i].f[j]]))
        m == Len(present)
    IN IF m = 0 THEN NaN
       ELSE IF m % 2 = 1 THEN 2 * present[(m + 1) \div 2]
            ELSE present[m \div 2] + present[m \div 2 + 1]

\* Imputer.transform of one value of a column whose doubled median is med2.
Impute2(v, med2) == IF v = NaN THEN med2 ELSE 2 * v

\* The square of StandardScaler's scale_ taken to be var_ as it is.
scaler_scale_sq_raw(n, s, ss) == [num |-> n * ss - s * s, den |-> 4 * n * n]

\* The square of StandardScaler's scale_ for a column of n doubled values of
\* sum s and sum of squares ss: var_ = (n * ss - s * s) / (2n)^2, and 1 in
\* place of 0 (_handle_zeros_in_scale) for a constant column.
scaler_scale_sq(n, s, ss) ==
    IF n * ss - s * s = 0 THEN [num |-> 1, den |-> 1]
    ELSE [num |-> n * ss - s * s, den |-> 4 * n * n]

column_stats(med2, n, s, ss) ==
    [median2 |-> med2, n |-> n, s |-> s, ss |-> ss,
     scale_sq |-> scaler_scale_sq(n, s, ss)]

\* The square of StandardScaler.transform of the value v of a column with
\* statistics st: ((v - mean_) / scale_) ** 2, not defined for scale_ = 0.
transform_sq(v, st) ==
    IF st.scale_sq.num = 0 THEN NoRatio
    ELSE Frac((st.n * Impute2(v, st.median2) - st.s)
                * (st.n * Impute2(v, st.median2) - st.s) * st.scale_sq.den,
              4 * st.n * st.n * st.scale_sq.num)

\* The statistics the preprocessing steps learn from column j of the samples
\* given to fit: the imputer's median (doubled), and for the scaler the count
\* n, the sum s and the sum of squares ss of the imputed (doubled) values, so
\* that mean_ = s / 2n and var_ = (n * ss - s * s) / (2n)^2.
ColumnStats(samples, j) ==
    LET med2 == Median2(samples, j)
        col == AsSeq([i \in 1..Len(samples) |-> Impute2(samples[i].f[j], med2)])
    IN column_stats(med2, Len(samples), SumSeq(col),
                    SumSeq([i \in 1..Len(col) |-> col[i] * col[i]]))

PreprocessingStats(samples) ==
    AsSeq([j \in 1..NCols(samples) |-> ColumnStats(samples, j)])

\* What the imputer alone learns: the median (doubled) of every column.
ImputerStats(samples) ==
    AsSeq([j \in 1..NCols(samples) |-> [median2 |-> Median2(samples, j)]])

(***************************************************************************)
(* Polynomials in alpha with integer coefficients: p[k] is the coefficient *)
(* of alpha^(k-1); <<>> is the polynomial 0.                               *)
(***************************************************************************)
PolyCoef(p, k) == IF k <= Len(p) THEN p[k] ELSE ZZero

PolyIsZero(p) == \A k \in 1..Len(p) : p[k] = ZZero

PolyAdd(p, q) ==
    IF Len(p) = 1 /\ Len(q) = 1 THEN << ZAdd(p[1], q[1]) >>
    ELSE AsSeq([k \in 1..Max(Len(p), Len(q)) |->
                  ZAdd(PolyCoef(p, k), PolyCoef(q, k))])

PolyNeg(p) ==
    IF Len(p) = 1 THEN << ZNeg(p[1]) >>
    ELSE AsSeq([k \in 1..Len(p) |-> ZNeg(p[k])])

RECURSIVE ConvSum(_, _, _, _)
\* The sum of p[i] * q[k + 1 - i] over i >= from.
ConvSum(p, q, k, from) ==
    IF from > Len(p) \/ from > k THEN ZZero
    ELSE IF k + 1 - from <= Len(q)
         THEN ZAdd(ZMul(p[from], q[k + 1 - from]), ConvSum(p, q, k, from + 1))
         ELSE ConvSum(p, q, k, from + 1)

PolyMul(p, q) ==
    IF Len(p) = 1 /\ Len(q) = 1 THEN << ZMul(p[1], q[1]) >>
    ELSE IF PolyIsZero(p) \/ PolyIsZero(q) THEN <<>>
    ELSE AsSeq([k \in 1..(Len(p) + Len(q) - 1) |-> ConvSum(p, q, k, 1)])

\* The least k with p[k] # 0; 0 for the polynomial 0.
LowestOrder(p) ==
    IF PolyIsZero(p) THEN 0
    ELSE CHOOSE k \in 1..Len(p) :
            p[k] # ZZero /\ \A l \in 1..(k - 1) : p[l] = ZZero

\* The square matrix A without its first row and its column j.
Minor(A, j) ==
    AsSeq([r \in 1..(Len(A) - 1) |->
             AsSeq([c \in 1..(Len(A) - 1) |->
                      A[r + 1][IF c < j THEN c ELSE c + 1]])])

\* The matrix A with its column j replaced by the vector b.
ReplaceColumn(A, j, b) ==
    AsSeq([r \in 1..Len(A) |->
             AsSeq([c \in 1..Len(A) |-> IF c = j THEN b[r] ELSE A[r][c]])])

RECURSIVE Det(_)
RECURSIVE DetExpand(_, _)

\* The terms of the columns from j on in the expansion of Det(A) along the
\* first row.
DetExpand(A, j) ==
    IF j > Len(A) THEN <<>>
    ELSE PolyAdd(IF PolyIsZero(A[1][j]) THEN <<>>
                 ELSE IF j % 2 = 1 THEN PolyMul(A[1][j], Det(Minor(A, j)))
                      ELSE PolyNeg(PolyMul(A[1][j], Det(Minor(A, j)))),
                 DetExpand(A, j + 1))

\* The determinant of a square matrix of polynomials.
Det(A) ==
    IF A = <<>> THEN <<ZOfInt(1)>>
    ELSE IF Len(A) = 1 THEN A[1][1] ELSE DetExpand(A, 1)

(***************************************************************************)
(* Ridge(alpha) after the two preprocessing steps.  Ridge centres the      *)
(* standardized columns Z and the target (fit_intercept=True) and solves   *)
(* (Z'Z + alpha I) w = Z'y; the prediction for a row z is mean(y) + z.w.   *)
(* With u[j] = w[j] / scale_[j] and Xc the centred unscaled columns, this  *)
(* is (Xc'Xc + alpha diag(scale_^2)) u = Xc'y, whose coefficients are      *)
(* rational: the system is solved exactly, by Cramer's rule.  alpha is in  *)
(* units of 1/AlphaUnit.                                                   *)
(*                                                                         *)
(* The solver is 'cholesky' (LAPACK posv), which falls back on the         *)
(* singular value decomposition when the factorization raises.  The system *)
(* is singular for alpha = 0 with a constant column or with dependent      *)
(* columns, such as the indicator columns of a text column without missing *)
(* value.  Its solutions differ by the vectors of the null space of Xc.    *)
(* The fallback gives the solution of least norm |w|, which is the limit   *)
(* of the solutions for alpha -> 0+: for alpha = 0 the determinants are    *)
(* kept as polynomials in alpha and the limit is the quotient of their     *)
(* coefficients of lowest order.                                           *)
(*                                                                         *)
(* A constant column is 0 after centring and gives a pivot of exactly 0:   *)
(* the factorization raises and the fit is the solution of least norm.     *)
(* Dependent columns without a constant one give a pivot that is 0 but for *)
(* the rounding of the floating point operations.  By that rounding, in    *)
(* each factorization, the pivot comes out not positive and the            *)
(* factorization raises, or positive and it completes, with the solution   *)
(* of least norm plus a vector of the null space that the rounding fixes.  *)
(* Such a fit is `free': its coef is the solution of least norm and stands *)
(* for any solution of the system.  Every solution gives the same          *)
(* prediction for a row that, centred, is a combination of the centred     *)
(* training rows (it is in the range of Xc'Xc); for another row the        *)
(* prediction is any number, as the rounding decides.                      *)
(***************************************************************************)
\* The imputed (doubled) values of every column of the samples.
ImputedColumns(samples, stats) ==
    AsSeq([j \in 1..Len(stats) |->
             AsSeq([i \in 1..Len(samples) |->
                      Impute2(samples[i].f[j], stats[j].median2)])])

Target(samples) == AsSeq([i \in 1..Len(samples) |-> samples[i].y])

\* n * (a - mean(a)).(b - mean(b)) for two columns of n values
CenteredDotN(a, b) ==
    Len(a) * SumSeq([i \in 1..Len(a) |-> a[i] * b[i]]) - SumSeq(a) * SumSeq(b)

\* (2n)^2 * scale_^2 of a column with statistics st
ScaleSqN2(st) == (4 * st.n * st.n * st.scale_sq.num) \div st.scale_sq.den

\* Entry (j, k) of n^2 * (Xc'Xc + alpha diag(scale_^2)) for the doubled
\* columns: a polynomial in alpha for alpha = 0, its value times AlphaUnit
\* otherwise.
NormalEntry(cols, stats, alpha, j, k) ==
    IF alpha = 0
    THEN << ZOfInt(Len(cols[j]) * CenteredDotN(cols[j], cols[k])),
            ZOfInt(IF j = k THEN ScaleSqN2(stats[j]) ELSE 0) >>
    ELSE << ZOfInt(AlphaUnit * Len(cols[j]) * CenteredDotN(cols[j], cols[k])
                   + (IF j = k THEN alpha * ScaleSqN2(stats[j]) ELSE 0)) >>

NormalMatrix(cols, stats, alpha) ==
    AsSeq([j \in 1..Len(cols) |->
             AsSeq([k \in 1..Len(cols) |-> NormalEntry(cols, stats, alpha, j, k)])])

\* n^2 * Xc'y, times AlphaUnit for alpha > 0
NormalRhs(cols, y, alpha) ==
    AsSeq([j \in 1..Len(cols) |->
             << ZOfInt((IF alpha = 0 THEN 1 ELSE AlphaUnit)
                       * Len(y) * CenteredDotN(cols[j], y)) >>])

\* u[j] = coef[j] / den, from the coefficients of order k of the determinants
\* (k = 0: every determinant is 0 and nothing is defined).  The system is
\* singular at alpha = 0 when k > 1; it is kept with the solution.
CramerAt(A, b, det, k) ==
    [den |-> IF k = 0 THEN ZZero ELSE det[k],
     coef |-> AsSeq([j \in 1..Len(A) |->
                       IF k = 0 THEN ZZero
                       ELSE PolyCoef(Det(ReplaceColumn(A, j, b)), k)]),
     order |-> k,
     normal |-> IF k > 1 THEN A ELSE <<>>]

\* The solution of A u = b; for polynomials in alpha, its limit at alpha = 0.
ridge_solve(A, b) ==
    With(Det(A), LAMBDA det : CramerAt(A, b, det, LowestOrder(det)))

\* Whether the solution sol of the system of the columns of statistics
\* stats is one of several among which the rounding decides: the system is
\* singular and no column is constant.
IsFree(stats, sol) ==
    /\ sol.order > 1
    /\ \A j \in 1..Len(stats) :
          stats[j].n * stats[j].ss # stats[j].s * stats[j].s

ridge_model(samples, alpha, stats, sol) ==
    [kind |-> "ridge",
     steps |-> <<"imputer", "scaler", "rgs">>,
     alpha |-> alpha,
     stats |-> stats,
     n |-> Len(samples),
     sy |-> SumSeq(Target(samples)),
     coef |-> sol.coef,
     den |-> sol.den,
     free |-> IsFree(stats, sol),
     order |-> sol.order,
     normal |-> sol.normal,
     fit_idx |-> Idx(samples)]

\* Pipeline.fit: the fitted model is the intercept mean(y) = sy / n and the
\* coefficients u[j] = coef[j] / den of the centred doubled columns.
ridge_fit(samples, alpha) ==
    With(PreprocessingStats(samples),
         LAMBDA stats :
            With(ImputedColumns(samples, stats),
                 LAMBDA cols :
                    ridge_model(samples, alpha, stats,
                                ridge_solve(NormalMatrix(cols, stats, alpha),
                                            NormalRhs(cols, Target(samples),
                                                      alpha)))))

(***************************************************************************)
(* Imputer followed by GradientBoostingRegressor(n_estimators=3000).  The  *)
(* boosting starts from mean(y).  A tree can only split a training set of  *)
(* at least 2 * min_samples_leaf rows; on a smaller one every tree is a    *)
(* single leaf fitted to the residuals of the mean, which are 0 on         *)
(* average, and the prediction is mean(y).  That is the case of every fit  *)
(* of the cross-validation here (at most 5 training rows, min_samples_leaf *)
(* >= 3).  The refit on all the training rows can split when they are 6 or *)
(* more and min_samples_leaf is 3; its predictions are then not            *)
(* represented (root_only is FALSE): the notebook never asks for them.     *)
(***************************************************************************)
gb_fit(samples, params) ==
    [kind |-> "gb",
     steps |-> <<"imputer", "rgs">>,
     n_estimators |-> n_estimators,
     params |-> params,
     stats |-> ImputerStats(samples),
     n |-> Len(samples),
     sy |-> SumSeq(Target(samples)),
     coef |-> <<>>,
     den |-> ZOfInt(1),
     free |-> FALSE,
     root_only |-> Len(samples) < 2 * params.min_samples_leaf,
     fit_idx |-> Idx(samples)]

\* Whether the predictions of the fitted pipeline m are represented.
Represented(m) == m.kind = "ridge" \/ m.root_only

(***************************************************************************)
(* Pipeline.predict and scoring='neg_mean_absolute_error'.  The prediction *)
(* for the feature values f is mean(y) + sum of u[j] * (f[j] - mean_[j]),  *)
(* an exact fraction of denominator n * den.  The mean absolute error is   *)
(* the sum of the absolute errors over the number of samples; it is kept   *)
(* in units of 1/Base^ScoreLimbs, rounded down, and is not defined for no  *)
(* samples (check_array refuses an empty array).                           *)
(*                                                                         *)
(* The error of a free fit on a row that is not in the range of its system *)
(* is decided by the rounding: it is any number from 0 on.  The mean       *)
(* absolute error is then known from below only, by the sum of the errors  *)
(* of the other rows over the number of all the samples: that bound is the *)
(* value computed, and whoever records it records that it is not `exact'.  *)
(***************************************************************************)
\* Whether the prediction of the fitted pipeline m for the feature values f
\* is the same for every solution of the system of m: the system with the
\* centred f on the right has a solution, that is, no determinant of
\* Cramer's rule for it is of lower order in alpha than that of the system.
InSpan(m, f) ==
    \/ ~ m.free
    \/ \A j \in 1..Len(m.coef) :
          LowestOrder(Det(ReplaceColumn(m.normal, j,
              AsSeq([k \in 1..Len(m.coef) |->
                       << ZOfInt(m.n * Impute2(f[k], m.stats[k].median2)
                                 - m.stats[k].s) >>]))))
             \notin 1..(m.order - 1)

\* The samples whose prediction by m the rounding does not decide.
Decided(m, samples) == SelectSeq(samples, LAMBDA s : InSpan(m, s.f))

\* Whether the rounding decides no prediction of m for the samples.
Determined(m, samples) == \A i \in 1..Len(samples) : InSpan(m, samples[i].f)

\* n * den * (the prediction for f)
PredictNum(m, f) ==
    ZAdd(ZMulInt(m.den, m.sy),
         ZSum([j \in 1..Len(m.coef) |->
                 ZMulInt(m.coef[j],
                         m.n * Impute2(f[j], m.stats[j].median2) - m.stats[j].s)]))

\* n * den * |y - prediction| for the sample s
AbsErrNum(m, s) ==
    ZMake(FALSE, ZSub(ZMulInt(m.den, m.n * s.y), PredictNum(m, s.f)).mag)

SumAbsErr(m, samples) ==
    ZSum([i \in 1..Len(samples) |-> AbsErrNum(m, samples[i])])

\* floor(Base^ScoreLimbs * sum / (count * n * den))
MeanScaled(sum, m, count) ==
    ZMake(FALSE, NatDiv(NatShift(sum.mag, ScoreLimbs),
                        NatMulSmall(m.den.mag, m.n * count)))

\* The sum of the absolute errors of m on rows, over the number of samples.
absolute_error_over(m, samples, rows) ==
    IF samples = <<>> \/ m.den = ZZero THEN Undefined
    ELSE IF ~ Represented(m) THEN NotRepresented
    ELSE [num |-> MeanScaled(SumAbsErr(m, rows), m, Len(samples)), den |-> 1]

\* The mean absolute error of no samples taken to be 0.
mean_absolute_error_of_none_is_0(m, samples) ==
    IF samples = <<>> THEN [num |-> ZZero, den |-> 1]
    ELSE absolute_error_over(m, samples, Decided(m, samples))

mean_absolute_error(m, samples) ==
    absolute_error_over(m, samples, Decided(m, samples))

\* The scorer: the negated mean absolute error.
neg_mean_absolute_error(m, samples) == FracNeg(mean_absolute_error(m, samples))

(***************************************************************************)
(* KFold(n_splits=5), no shuffling: the first n % 5 folds hold n \div 5 + 1 *)
(* consecutive samples, the others n \div 5; fold k is held out in split k. *)
(***************************************************************************)
fold_size(n, k) == n \div cv + (IF k <= n % cv THEN 1 ELSE 0)

fold_start(n, k) == SumSeq([i \in 1..(k - 1) |-> fold_size(n, i)])

\* The positions held out in split k.
kfold_test_positions(n, k) ==
    (fold_start(n, k) + 1)..(fold_start(n, k) + fold_size(n, k))

kfold_test(samples, k) ==
    LET n == Len(samples)
    IN AsSeq([i \in 1..fold_size(n, k) |-> samples[fold_start(n, k) + i]])

\* The split's training samples taken to be all the samples.
kfold_train_all(samples, k) == samples

kfold_train(samples, k) ==
    LET n == Len(samples)
        a == fold_start(n, k)
        b == fold_size(n, k)
    IN AsSeq([i \in 1..(n - b) |-> IF i <= a THEN samples[i] ELSE samples[i + b]])

(***************************************************************************)
(* _fit_and_score: the pipeline is fitted anew on the training samples of  *)
(* the split and scored on the samples held out.                           *)
(***************************************************************************)
Fit(kind, samples, params) ==
    IF kind = "ridge" THEN ridge_fit(samples, params) ELSE gb_fit(samples, params)

\* The parameters of the last step of a fitted pipeline.
rgs_params(m) ==
    IF m.kind = "ridge" THEN [alpha |-> m.alpha]
    ELSE [n_estimators |-> m.n_estimators,
          learning_rate |-> m.params.learning_rate,
          max_depth |-> m.params.max_depth,
          max_features |-> m.params.max_features,
          min_samples_leaf |-> m.params.min_samples_leaf]

\* The record kept of one split: the score of the fitted pipeline m on the
\* held-out samples and whether it is exact (if not, the score is the
\* bound), with the steps of m, the statistics m learned and the rows it
\* saw.
split_record(m, held, sc, exact) ==
    [test_score |-> sc,
     exact |-> exact,
     n_test |-> Len(held),
     steps |-> m.steps,
     rgs |-> rgs_params(m),
     stats |-> m.stats,
     fit_idx |-> m.fit_idx,
     test_idx |-> Idx(held)]

score_split(m, held) ==
    With(Decided(m, held),
         LAMBDA rows : split_record(m, held,
                                    FracNeg(absolute_error_over(m, held, rows)),
                                    rows = held))

fit_and_score(kind, samples, params, k) ==
    With(Fit(kind, kfold_train(samples, k), params),
         LAMBDA m : score_split(m, kfold_test(samples, k)))

(***************************************************************************)
(* BaseSearchCV.fit with iid=True and refit=True.  Every candidate is      *)
(* fitted and scored on every split; mean_test_score is the average of     *)
(* the split scores weighted by the number of held-out samples of each     *)
(* split; the candidates are ranked by it (rank 1 is the greatest, ties    *)
(* share the lower rank) and best_index_ is the first candidate of rank 1. *)
(* The pipeline is then fitted on all the samples with best_params_.       *)
(*                                                                         *)
(* A split score that rounding decides is any value up to its bound.  What *)
(* the search does with it depends on the order of the candidate's mean    *)
(* among the means of the other candidates only: the search is fitted for  *)
(* every value of a set that produces every such order, and the score      *)
(* stays recorded as not exact.                                            *)
(***************************************************************************)
\* The scores of the splits and the numbers of samples they held out.
SplitScores(splits) == AsSeq([k \in 1..Len(splits) |-> splits[k].test_score.num])

SplitCounts(splits) == AsSeq([k \in 1..Len(splits) |-> splits[k].n_test])

\* The sum of w[k] * s[k]
WeightedSum(s, w) == ZSum([k \in 1..Len(s) |-> ZMulInt(s[k], w[k])])

\* The sum of w[k] * s[k]^2
WeightedSumSq(s, w) == ZSum([k \in 1..Len(s) |-> ZMulInt(ZMul(s[k], s[k]), w[k])])

\* The weighted mean of the scores s: sum(w * s) / sum(w).
Average(s, w) == [num |-> WeightedSum(s, w), den |-> SumSeq(w)]

\* The weighted mean of the squares minus the square of the weighted mean,
\* from sum(w * s), sum(w * s^2) and sum(w): the weighted mean of the squares
\* of the differences between the scores and their weighted mean.
VarianceOf(sum, sumsq, total) ==
    [num |-> ZSub(ZMulInt(sumsq, total), ZMul(sum, sum)), den |-> total * total]

Variance(s, w) == VarianceOf(WeightedSum(s, w), WeightedSumSq(s, w), SumSeq(w))

\* np.average(scores, weights=test_sample_counts)
mean_test_score(splits) == Average(SplitScores(splits), SplitCounts(splits))

\* The weights of K splits weighted alike.
Ones(K) == [k \in 1..K |-> 1]

\* np.average(scores): every split with the same weight.
mean_test_score_unweighted(splits) ==
    Average(SplitScores(splits), Ones(Len(splits)))

\* The square of std_test_score without weights: the mean over the splits of
\* (score - np.average(scores)) ** 2.
std_test_score_sq_unweighted(splits) ==
    Variance(SplitScores(splits), Ones(Len(splits)))

\* The square of std_test_score = np.sqrt(np.average((scores - mean) ** 2,
\* weights=test_sample_counts)), mean being mean_test_score.
std_test_score_sq(splits) == Variance(SplitScores(splits), SplitCounts(splits))

\* rankdata(-means, method='min')[c]: 1 + the number of greater means.
rank_test_score(means, c) ==
    1 + Cardinality({d \in 1..Len(means) : FracLess(means[c], means[d])})

\* The last position holding the least rank.
argmin_last(ranks) ==
    CHOOSE c \in 1..Len(ranks) :
        /\ \A d \in 1..Len(ranks) : ranks[c] <= ranks[d]
        /\ \A d \in (c + 1)..Len(ranks) : ranks[d] > ranks[c]

\* ranks.argmin(): the first position holding the least rank.
argmin(ranks) ==
    CHOOSE c \in 1..Len(ranks) :
        /\ \A d \in 1..Len(ranks) : ranks[c] <= ranks[d]
        /\ \A d \in 1..(c - 1) : ranks[d] > ranks[c]

\* ranks.argmax(): the first position holding the greatest rank.
argmax(ranks) ==
    CHOOSE c \in 1..Len(ranks) :
        /\ \A d \in 1..Len(ranks) : ranks[c] >= ranks[d]
        /\ \A d \in 1..(c - 1) : ranks[d] < ranks[c]

best_index_of_argmax(ranks) == argmax(ranks)

best_index_of(ranks) == argmin(ranks)

NotFitted == [fitted |-> FALSE]

\* The splits of a candidate whose score the rounding decides.
Inexact(scored) == {k \in 1..Len(scored) : ~ scored[k].exact}

\* floor(x / w) for an integer w > 0
ZFloorDiv(x, w) ==
    IF x.neg
    THEN ZNeg(ZMake(FALSE, NatDiv(NatAdd(x.mag, ZOfInt(w - 1).mag),
                                  ZOfInt(w).mag)))
    ELSE ZMake(FALSE, NatDiv(x.mag, ZOfInt(w).mag))

\* The values taken for the score of split k of candidate c, which the
\* rounding decides: its bound and, for every candidate d with exact scores,
\* the scores next to the one that would give c the mean of d (one less,
\* that one rounded down, one more), as far as they are below the bound.
\* The other scores of c are taken as recorded.
score_outcomes(splits, c, k) ==
    LET ScoreSum(scored) ==
            WeightedSum(SplitScores(scored), SplitCounts(scored))
        w == splits[c][k].n_test
        bound == splits[c][k].test_score.num
        others == ZSub(ScoreSum(splits[c]), ZMulInt(bound, w))
    IN {bound} \cup
       {v \in UNION {{ZSub(q, ZOfInt(1)), q, ZAdd(q, ZOfInt(1))} :
                       q \in {ZFloorDiv(ZSub(ScoreSum(splits[d]), others), w) :
                                d \in {e \in 1..Len(splits) :
                                         Inexact(splits[e]) = {}}}} :
          ZLess(v, bound)}

\* The scores the search can have to work with: those of splits, every
\* candidate with a score that the rounding decides having one of the
\* values taken for the first such score.
split_outcomes(splits) ==
    LET Z == {c \in 1..Len(splits) : Inexact(splits[c]) # {}}
        FirstInexact(sp, c) ==
            CHOOSE k \in Inexact(sp[c]) : \A l \in Inexact(sp[c]) : k <= l
        values == UNION {score_outcomes(splits, c, FirstInexact(splits, c)) :
                           c \in Z}
    IN {AsSeq([c \in 1..Len(splits) |->
                 IF c \in Z
                 THEN [splits[c] EXCEPT
                         ![FirstInexact(splits, c)].test_score.num = h[c]]
                 ELSE splits[c]]) :
          h \in {g \in [Z -> values] :
                   \A c \in Z :
                       g[c] \in score_outcomes(splits, c,
                                               FirstInexact(splits, c))}}

\* The scores of every candidate on every split.
all_splits(kind, samples, candidates) ==
    AsSeq([c \in 1..Len(candidates) |->
             AsSeq([k \in 1..cv |->
                      fit_and_score(kind, samples, candidates[c], k)])])

\* No refit on all the samples: the estimator kept is the one fitted on the
\* training samples of the last split.
search_record_no_refit(kind, samples, candidates, splits, means, ranks, best) ==
    [fitted |-> TRUE,
     cv_results |-> AsSeq([c \in 1..Len(candidates) |->
                             [params |-> candidates[c],
                              splits |-> splits[c],
                              mean_test_score |-> means[c],
                              std_test_score_sq |-> std_test_score_sq(splits[c]),
                              rank_test_score |-> ranks[c],
                              exact |-> Inexact(splits[c]) = {}]]),
     best_index |-> best,
     best_params |-> candidates[best],
     best_score |-> means[best],
     best_estimator |-> Fit(kind, kfold_train(samples, cv), candidates[best])]

\* The attributes of the fitted search; best_estimator_ is the refit.
search_record(kind, samples, candidates, splits, means, ranks, best) ==
    [fitted |-> TRUE,
     cv_results |-> AsSeq([c \in 1..Len(candidates) |->
                             [params |-> candidates[c],
                              splits |-> splits[c],
                              mean_test_score |-> means[c],
                              std_test_score_sq |-> std_test_score_sq(splits[c]),
                              rank_test_score |-> ranks[c],
                              exact |-> Inexact(splits[c]) = {}]]),
     best_index |-> best,
     best_params |-> candidates[best],
     best_score |-> means[best],
     best_estimator |-> Fit(kind, samples, candidates[best])]

\* The search fitted from the scores of the splits: the means, the ranks
\* of the means, the candidate of the first least rank and the refit.
search_from_splits(kind, samples, candidates, splits) ==
    With(AsSeq([c \in 1..Len(splits) |-> mean_test_score(splits[c])]),
         LAMBDA means :
            With(AsSeq([c \in 1..Len(means) |-> rank_test_score(means, c)]),
                 LAMBDA ranks :
                    search_record(kind, samples, candidates, splits, means,
                                  ranks, best_index_of(ranks))))

\* The searches that fit can leave: one, but where the rounding decides a
\* split score.
search_fit(kind, samples, candidates) ==
    With(all_splits(kind, samples, candidates),
         LAMBDA splits : {search_from_splits(kind, samples, candidates, sp) :
                            sp \in split_outcomes(splits)})

\* KFold.split raises when there are fewer samples than splits.
search_raises(samples) == Len(samples) < cv

\* BaseSearchCV.score(X, y): the scorer on best_estimator_.
search_score(gs, samples) == neg_mean_absolute_error(gs.best_estimator, samples)

\* Every index label handed to a fit of the search: the training samples of
\* every split of every candidate, and the samples of the refit.
FitIdx(gs) ==
    UNION { gs.cv_results[c].splits[k].fit_idx :
              c \in 1..Len(gs.cv_results), k \in 1..cv }
    \cup gs.best_estimator.fit_idx

(***************************************************************************)
(* cell 28: ParameterSampler(grid, n_iter=20, random_state=0).  For each   *)
(* candidate the parameters are drawn in the sorted order of their names:  *)
(* learning_rate (a list: v[randint(len(v))]), max_depth (sp_randint.rvs), *)
(* max_features (a list), min_samples_leaf (sp_randint.rvs).               *)
(***************************************************************************)
\* sp_randint taken with its upper bound included.
sample_candidate_inclusive(rng) ==
    LET d1 == randint(Len(learning_rate_vals), rng)
        d2 == randint(max_depth_dist[2] - max_depth_dist[1] + 1, d1.rng)
        d3 == randint(Len(max_features_vals), d2.rng)
        d4 == randint(min_samples_leaf_dist[2] - min_samples_leaf_dist[1] + 1,
                      d3.rng)
    IN [params |-> [learning_rate |-> learning_rate_vals[d1.val + 1],
                    max_depth |-> max_depth_dist[1] + d2.val,
                    max_features |-> max_features_vals[d3.val + 1],
                    min_samples_leaf |-> min_samples_leaf_dist[1] + d4.val],
        rng |-> d4.rng]

sample_candidate(rng) ==
    LET d1 == randint(Len(learning_rate_vals), rng)
        d2 == randint(max_depth_dist[2] - max_depth_dist[1], d1.rng)
        d3 == randint(Len(max_features_vals), d2.rng)
        d4 == randint(min_samples_leaf_dist[2] - min_samples_leaf_dist[1], d3.rng)
    IN [params |-> [learning_rate |-> learning_rate_vals[d1.val + 1],
                    max_depth |-> max_depth_dist[1] + d2.val,
                    max_features |-> max_features_vals[d3.val + 1],
                    min_samples_leaf |-> min_samples_leaf_dist[1] + d4.val],
        rng |-> d4.rng]

RECURSIVE parameter_sampler(_, _)
parameter_sampler(n, rng) ==
    IF n = 0 THEN <<>>
    ELSE LET d == sample_candidate(rng)
         IN <<d.params>> \o parameter_sampler(n - 1, d.rng)

gb_candidates == parameter_sampler(n_points, RandomState(random_state))

(***************************************************************************)
(* The kernel's namespace and the notebook's position.                     *)
(***************************************************************************)
VARIABLES
    file,          \* the rows of the input file (tokens)
    pc,            \* the next cell to execute, "done" or "aborted"
    run,           \* the number of this execution of the notebook
    np_random,     \* numpy's global generator
    data,          \* cells 4, 6
    tr,            \* cells 8, 10, 38
    te,            \* cells 8, 38
    ridge_gs,      \* cells 20, 22
    gb_gs,         \* cells 28, 29
    data_cat,      \* cell 32
    ridge_cat_gs,  \* cells 40, 41
    performances,  \* cell 44
    table,         \* what cell 45 displayed
    stdout,        \* what cell 47 printed
    split_log,     \* history: the index labels each split put in tr and te
    score_log,     \* history: the index labels handed to each score call
    prev           \* history: what the earlier executions produced

vars == <<file, pc, run, np_random, data, tr, te, ridge_gs, gb_gs, data_cat,
          ridge_cat_gs, performances, table, stdout, split_log, score_log, prev>>

\* The seeds numpy's global generator gets from the system's entropy: the
\* first when the kernel starts, any of them when it starts again (two
\* executions are compared with the same and with different generators).
EntropySeeds == <<1, 2>>

\* The first execution: any file, in a kernel that has executed nothing.
Init ==
    /\ file \in Files
    /\ run = 1
    /\ np_random = RandomState(EntropySeeds[1])
    /\ prev = <<>>
    /\ pc = "cell4"
    /\ data = <<>>
    /\ tr = <<>>
    /\ te = <<>>
    /\ ridge_gs = NotFitted
    /\ gb_gs = NotFitted
    /\ data_cat = <<>>
    /\ ridge_cat_gs = NotFitted
    /\ performances = <<>>
    /\ table = <<>>
    /\ stdout = <<>>
    /\ split_log = <<>>
    /\ score_log = <<>>

\* cell 4: data = pd.read_csv(data_path, na_values='?')
Cell4 ==
    /\ pc = "cell4"
    /\ data' = read_csv(file)
    /\ pc' = "cell6"
    /\ UNCHANGED <<table, file,
                   run, np_random, tr, te, ridge_gs, gb_gs, data_cat,
                   ridge_cat_gs, performances, stdout, split_log, score_log, prev>>

\* cell 6: data = data.dropna(subset=["price"])
Cell6 ==
    /\ pc = "cell6"
    /\ data' = dropna_price(data)
    /\ pc' = "cell8"
    /\ UNCHANGED <<table, file,
                   run, np_random, tr, te, ridge_gs, gb_gs, data_cat,
                   ridge_cat_gs, performances, stdout, split_log, score_log, prev>>

\* cell 8: tr, te = train_test_split(data, test_size, random_state)
Cell8 ==
    /\ pc = "cell8"
    /\ LET sp == train_test_split(data, split_random_state, np_random)
       IN /\ tr' = sp.tr
          /\ te' = sp.te
          /\ np_random' = sp.np_random
          /\ split_log' = Append(split_log, [tr |-> Idx(sp.tr), te |-> Idx(sp.te)])
    /\ pc' = "cell10"
    /\ UNCHANGED <<table, file,
                   run, data, ridge_gs, gb_gs, data_cat, ridge_cat_gs,
                   performances, stdout, score_log, prev>>

\* cell 10: tr = tr.select_dtypes(include=['int64', 'float64'])
Cell10 ==
    /\ pc = "cell10"
    /\ tr' = select_dtypes(tr)
    /\ pc' = "cell22"
    /\ UNCHANGED <<table, file,
                   run, np_random, data, te, ridge_gs, gb_gs, data_cat,
                   ridge_cat_gs, performances, stdout, split_log, score_log, prev>>

\* cells 18, 20, 22: ridge_gs = GridSearchCV(pipeline, grid, ...) and
\* ridge_gs.fit(tr.drop(['price'], axis=1), tr.price)
Cell22 ==
    /\ pc = "cell22"
    /\ LET X == drop_price(tr)
       IN IF search_raises(X)
          THEN /\ pc' = "aborted"
               /\ UNCHANGED ridge_gs
          ELSE /\ ridge_gs' \in search_fit("ridge", X, alpha_range)
               /\ pc' = "cell29"
    /\ UNCHANGED <<table, file,
                   run, np_random, data, tr, te, gb_gs, data_cat,
                   ridge_cat_gs, performances, stdout, split_log, score_log, prev>>

\* cells 25, 28, 29: gb_gs = RandomizedSearchCV(pipeline, grid, n_iter=20, ...)
\* and gb_gs.fit(tr.drop(['price'], axis=1), tr.price)
Cell29 ==
    /\ pc = "cell29"
    /\ LET X == drop_price(tr)
       IN IF search_raises(X)
          THEN /\ pc' = "aborted"
               /\ UNCHANGED gb_gs
          ELSE /\ gb_gs' \in search_fit("gb", X, gb_candidates)
               /\ pc' = "cell32"
    /\ UNCHANGED <<table, file,
                   run, np_random, data, tr, te, ridge_gs, data_cat,
                   ridge_cat_gs, performances, stdout, split_log, score_log, prev>>

\* cell 32: data_cat = pd.get_dummies(data)
Cell32 ==
    /\ pc = "cell32"
    /\ data_cat' = get_dummies(data)
    /\ pc' = "cell38"
    /\ UNCHANGED <<table, file,
                   run, np_random, data, tr, te, ridge_gs, gb_gs,
                   ridge_cat_gs, performances, stdout, split_log, score_log, prev>>

\* cell 38: tr, te = train_test_split(data_cat, test_size, random_state)
Cell38 ==
    /\ pc = "cell38"
    /\ LET sp == train_test_split(data_cat, split_random_state, np_random)
       IN /\ tr' = sp.tr
          /\ te' = sp.te
          /\ np_random' = sp.np_random
          /\ split_log' = Append(split_log, [tr |-> Idx(sp.tr), te |-> Idx(sp.te)])
    /\ pc' = "cell41"
    /\ UNCHANGED <<table, file,
                   run, data, ridge_gs, gb_gs, data_cat, ridge_cat_gs,
                   performances, stdout, score_log, prev>>

\* cells 40, 41: ridge_cat_gs = GridSearchCV(pipeline, grid, ...) and
\* ridge_cat_gs.fit(tr.drop(['price'], axis=1), tr.price)
Cell41 ==
    /\ pc = "cell41"
    /\ LET X == drop_price_cat(tr)
       IN IF search_raises(X)
          THEN /\ pc' = "aborted"
               /\ UNCHANGED ridge_cat_gs
          ELSE /\ ridge_cat_gs' \in search_fit("ridge", X, alpha_range)
               /\ pc' = "cell44"
    /\ UNCHANGED <<table, file,
                   run, np_random, data, tr, te, ridge_gs, gb_gs, data_cat,
                   performances, stdout, split_log, score_log, prev>>

\* The candidates selected by the mask mean_test_score == best_score_.
mean_equals_best(gs) ==
    {c \in 1..Len(gs.cv_results) :
        gs.cv_results[c].mean_test_score = gs.best_score}

\* Element [-1] of the masked array: the last candidate of the mask.
std_score_index_last(gs) ==
    IF mean_equals_best(gs) = {} THEN 0
    ELSE CHOOSE c \in mean_equals_best(gs) :
            \A d \in mean_equals_best(gs) : d <= c

\* The candidate whose std_test_score is element [0] of the masked array:
\* the first candidate of the mask; 0 when the mask selects nothing (the
\* subscript then raises IndexError).
std_score_index(gs) ==
    IF mean_equals_best(gs) = {} THEN 0
    ELSE CHOOSE c \in mean_equals_best(gs) :
            \A d \in mean_equals_best(gs) : c <= d

\* cell 44: one record per search, with std_score looked up by the mean and
\* mean_score = -best_score_; the deviation is kept as its square
performance_record(name, gs) ==
    [Experiment |-> name,
     MAE_mean |-> FracNeg(gs.best_score),
     MAE_std_sq |-> gs.cv_results[std_score_index(gs)].std_test_score_sq,
     exact |-> gs.cv_results[gs.best_index].exact]

Cell44 ==
    /\ pc = "cell44"
    /\ IF \/ std_score_index(ridge_gs) = 0
          \/ std_score_index(gb_gs) = 0
          \/ std_score_index(ridge_cat_gs) = 0
       THEN /\ pc' = "aborted"
            /\ UNCHANGED performances
       ELSE /\ performances' =
                  << performance_record("Ridge num", ridge_gs),
                     performance_record("Gradient boosting", gb_gs),
                     performance_record("Ridge cat", ridge_cat_gs) >>
            /\ pc' = "cell45"
    /\ UNCHANGED <<table, file,
                   run, np_random, data, tr, te, ridge_gs, gb_gs,
                   data_cat, ridge_cat_gs, stdout, split_log, score_log, prev>>

\* The rows s, sorted by 'MAE mean', with the row r put after the rows whose
\* 'MAE mean' is not greater.
RECURSIVE InsertByMAE(_, _)
InsertByMAE(r, s) ==
    IF s = <<>> THEN <<r>>
    ELSE IF FracLess(r.MAE_mean, Head(s).MAE_mean) THEN <<r>> \o s
         ELSE <<Head(s)>> \o InsertByMAE(r, Tail(s))

\* The frame displayed as it is.
sort_values_unsorted(frame) == frame

\* DataFrame.sort_values(by='MAE mean'): a new frame with the rows in
\* ascending order of 'MAE mean'; rows of equal value keep their order (the
\* sort of so few rows is an insertion sort).
RECURSIVE sort_values(_)
sort_values(frame) ==
    IF frame = <<>> THEN <<>>
    ELSE InsertByMAE(frame[Len(frame)],
                     sort_values(SubSeq(frame, 1, Len(frame) - 1)))

\* cell 45: performances.sort_values(by='MAE mean'), displayed
Cell45 ==
    /\ pc = "cell45"
    /\ table' = sort_values(performances)
    /\ pc' = "cell47"
    /\ UNCHANGED <<file,
                   run, np_random, data, tr, te, ridge_gs, gb_gs, data_cat,
                   ridge_cat_gs, performances, stdout, split_log, score_log, prev>>

\* cell 47: print(-ridge_cat_gs.score(te.drop(['price'], axis=1), te.price))
\* The score raises when it is not defined; the value printed is exact or,
\* where the rounding decides a prediction, the bound of what is printed.
reported_value(score) == FracNeg(score)

Cell47 ==
    /\ pc = "cell47"
    /\ LET X == drop_price_cat(te)
       IN /\ score_log' = Append(score_log, Idx(X))
          /\ IF search_score(ridge_cat_gs, X) = Undefined
             THEN /\ pc' = "aborted"
                  /\ UNCHANGED stdout
             ELSE /\ stdout' =
                        Append(stdout,
                               [value |-> reported_value(
                                             search_score(ridge_cat_gs, X)),
                                exact |-> Determined(ridge_cat_gs.best_estimator,
                                                     X)])
                  /\ pc' = "done"
    /\ UNCHANGED <<table, file,
                   run, np_random, data, tr, te, ridge_gs, gb_gs, data_cat,
                   ridge_cat_gs, performances, split_log, prev>>

\* What an execution leaves for comparison with the next one.
Summary ==
    [pc |-> pc,
     split_log |-> split_log,
     best_alpha |-> IF ridge_cat_gs.fitted THEN <<ridge_cat_gs.best_params>>
                    ELSE <<>>,
     stdout |-> stdout]

\* Kernel restart and run all: the namespace is lost, numpy's global
\* generator is seeded anew, the same file is read again.
Restart ==
    /\ pc \in {"done", "aborted"}
    /\ run < MaxRuns
    /\ run' = run + 1
    /\ prev' = Append(prev, Summary)
    /\ np_random' \in {RandomState(e) : e \in Range(EntropySeeds)}
    /\ pc' = "cell4"
    /\ data' = <<>>
    /\ tr' = <<>>
    /\ te' = <<>>
    /\ ridge_gs' = NotFitted
    /\ gb_gs' = NotFitted
    /\ data_cat' = <<>>
    /\ ridge_cat_gs' = NotFitted
    /\ performances' = <<>>
    /\ table' = <<>>
    /\ stdout' = <<>>
    /\ split_log' = <<>>
    /\ score_log' = <<>>
    /\ UNCHANGED file

Next ==
    \/ Cell4 \/ Cell6 \/ Cell8 \/ Cell10 \/ Cell22 \/ Cell29 \/ Cell32
    \/ Cell38 \/ Cell41 \/ Cell44 \/ Cell45 \/ Cell47 \/ Restart

Spec == Init /\ [][Next]_vars

(***************************************************************************)
(* The score of cell 47 as a function of the held-out rows it is given:    *)
(* the state of a first execution before cell 47, with te cut to any       *)
(* number of its first rows, none included, and cell 47 executed from it.  *)
(***************************************************************************)
ScoreInit ==
    /\ file \in Files
    /\ run = 1
    /\ prev = <<>>
    /\ pc = "cell47"
    /\ data = dropna_price(read_csv(file))
    /\ data_cat = get_dummies(data)
    /\ \E first \in {train_test_split(data, split_random_state,
                                       RandomState(EntropySeeds[1]))} :
       \E second \in {train_test_split(data_cat, split_random_state,
                                        first.np_random)} :
       \E X \in {drop_price(select_dtypes(first.tr))} :
          /\ ~ search_raises(X)
          /\ ridge_gs \in search_fit("ridge", X, alpha_range)
          /\ gb_gs \in search_fit("gb", X, gb_candidates)
          /\ np_random = second.np_random
          /\ tr = second.tr
          /\ split_log = << [tr |-> Idx(first.tr), te |-> Idx(first.te)],
                            [tr |-> Idx(second.tr), te |-> Idx(second.te)] >>
          /\ ridge_cat_gs \in search_fit("ridge", drop_price_cat(tr), alpha_range)
          /\ te \in {SubSeq(second.te, 1, k) : k \in 0..Len(second.te)}
    /\ std_score_index(ridge_gs) # 0
    /\ std_score_index(gb_gs) # 0
    /\ std_score_index(ridge_cat_gs) # 0
    /\ performances = << performance_record("Ridge num", ridge_gs),
                         performance_record("Gradient boosting", gb_gs),
                         performance_record("Ridge cat", ridge_cat_gs) >>
    /\ table = sort_values(performances)
    /\ stdout = <<>>
    /\ score_log = <<>>

ScoreSpec == ScoreInit /\ [][Cell47]_vars

(***************************************************************************)
(* Properties.                                                             *)
(***************************************************************************)
\* The index labels of the rows of the file whose price is '?'.
MissingPriceLabels == {i - 1 : i \in {k \in 1..Len(file) : file[k][1] = "?"}}

\* C1: no row with a missing price is ever in a partition: every row of tr
\* and of te has a price, and no split (of data or of data_cat) has put the
\* index label of a row whose price is '?' in either partition.
C1_NoMissingPriceInPartitions ==
    /\ \A i \in 1..Len(tr) : tr[i].price # NaN
    /\ \A i \in 1..Len(te) : te[i].price # NaN
    /\ \A k \in 1..Len(split_log) :
          (split_log[k].tr \cup split_log[k].te) \cap MissingPriceLabels = {}

\* Both splits are made, of a file that has a row without price.
C1_Witness ==
    /\ Len(split_log) = 2
    /\ MissingPriceLabels # {}
    /\ tr # <<>>
    /\ te # <<>>

\* C2: with seed 0 and proportion 0.33 the split of the same cleaned table
\* puts the same rows in the training partition and the same rows in the
\* held-out partition each time it is run: the k-th split of this execution
\* equals the k-th split of every earlier execution on the same file,
\* whatever the state of the global generator.
C2_SplitDeterministic ==
    \A r \in 1..Len(prev) :
        \A k \in 1..Len(split_log) :
            k <= Len(prev[r].split_log) => split_log[k] = prev[r].split_log[k]

\* A second execution has made its splits, of at least four rows, from
\* another state of the global generator than that of its start.
C2_Witness ==
    /\ run = 2
    /\ Len(split_log) = 2
    /\ Len(prev[1].split_log) = 2
    /\ Cardinality(split_log[1].tr) >= 3

\* C3: the split of data and the split of data_cat put the same rows (by
\* index label) in the training partition and the same rows in the held-out
\* partition.
C3_SameRowsInBothSplits ==
    Len(split_log) = 2 =>
        /\ split_log[1].tr = split_log[2].tr
        /\ split_log[1].te = split_log[2].te

\* Both splits are made, of a table that has a row without text value.
C3_Witness ==
    /\ Len(split_log) = 2
    /\ \E i \in 1..Len(data) : data[i].c = NaNObj
    /\ Cardinality(split_log[2].tr) >= 3
    /\ Cardinality(split_log[2].te) >= 2

\* C4: after the encoding there is one indicator column for each distinct
\* value of the text column, and every row, also a row whose value was '?'
\* in the file, has exactly one indicator equal to 1.
C4_ExactlyOneIndicatorPerRow ==
    pc \in {"cell38", "cell41", "cell44", "cell45", "cell47", "done"} =>
        /\ Len(data_cat) = Len(data)
        /\ \A i \in 1..Len(data_cat) :
              /\ DOMAIN data_cat[i].dummies = Levels(data)
              /\ Cardinality({v \in DOMAIN data_cat[i].dummies :
                                data_cat[i].dummies[v] = 1}) = 1


\* The values a feature of a held-out sample is changed to.
PerturbValues == {NaN, 0, 1, 4, 7}

\* The statistics every candidate of the search used in split k are those
\* of the training samples of split k, also after a feature of a sample
\* held out in split k has been changed.
StatsIgnoreHeldOut(gs, X) ==
    \A k \in 1..cv :
        \A i \in kfold_test_positions(Len(X), k) :
            \A j \in 1..NCols(X) :
                \A v \in PerturbValues :
                    LET X2 == [X EXCEPT ![i].f[j] = v]
                        stats2 == IF gs.best_estimator.kind = "ridge"
                                  THEN PreprocessingStats(kfold_train(X2, k))
                                  ELSE ImputerStats(kfold_train(X2, k))
                    IN \A c \in 1..Len(gs.cv_results) :
                          gs.cv_results[c].splits[k].stats = stats2

\* C5: in every fold of every search the imputer's median and the scaler's
\* mean and deviation come from the fold's training rows only: changing a
\* feature value of a row held out in a fold leaves the statistics used in
\* that fold unchanged.
C5_FoldStatsFromTrainingRowsOnly ==
    /\ pc \in {"cell29", "cell32", "cell38"} =>
          StatsIgnoreHeldOut(ridge_gs, drop_price(tr))
    /\ pc \in {"cell32", "cell38"} =>
          StatsIgnoreHeldOut(gb_gs, drop_price(tr))
    /\ pc \in {"cell44", "cell45", "cell47", "done"} =>
          StatsIgnoreHeldOut(ridge_cat_gs, drop_price_cat(tr))

\* The three searches are fitted, on training rows with a missing feature
\* value (the imputer's median is then in use) and two indicator columns.
C5_Witness ==
    /\ pc = "cell44"
    /\ \E i \in 1..Len(tr) : tr[i].x = NaN
    /\ NCols(drop_price_cat(tr)) = 3

\* The three searches, in the order of their cells, and the positions of
\* those that have been fitted.
Searches == <<ridge_gs, gb_gs, ridge_cat_gs>>

FittedSearches == {i \in 1..3 : Searches[i].fitted}

\* C6: every fit of every search is given rows of the training partition
\* only and no row of the held-out partition; the held-out partition is
\* handed to a score call only after the three searches are fitted, and to
\* exactly one score call in an execution that completes.
C6_HeldOutOnlyAtTheEnd ==
    /\ \A i \in FittedSearches :
          \A k \in 1..Len(split_log) :
              /\ FitIdx(Searches[i]) \subseteq split_log[k].tr
              /\ FitIdx(Searches[i]) \cap split_log[k].te = {}
    /\ Len(score_log) <= 1
    /\ score_log # <<>> =>
          /\ ridge_gs.fitted /\ gb_gs.fitted /\ ridge_cat_gs.fitted
          /\ score_log[1] = Idx(te)
    /\ pc \in {"cell4", "cell6", "cell8", "cell10", "cell22", "cell29",
               "cell32", "cell38", "cell41", "cell44", "cell45", "cell47"} =>
          score_log = <<>>
    /\ pc = "done" => Len(score_log) = 1

\* The execution is complete and the held-out rows have been scored.
C6_Witness ==
    /\ pc = "done"
    /\ Len(score_log) = 1
    /\ Cardinality(score_log[1]) >= 2

\* The candidates of a ridge search are the seven of alpha_range, each
\* scored on the cv splits; the selected one is one of them and no
\* candidate has a lower mean absolute error (a greater mean_test_score).
RidgeSelection(gs) ==
    /\ Len(alpha_range) = 7
    /\ gs.best_params \in Range(alpha_range)
    /\ [c \in 1..Len(gs.cv_results) |-> gs.cv_results[c].params] = alpha_range
    /\ \A c \in 1..Len(gs.cv_results) :
          /\ Len(gs.cv_results[c].splits) = cv
          /\ \A k \in 1..cv : gs.cv_results[c].splits[k].n_test > 0
          /\ ~ FracLess(gs.best_score, gs.cv_results[c].mean_test_score)
    /\ gs.best_index \in 1..Len(alpha_range)
    /\ gs.best_params = alpha_range[gs.best_index]
    /\ gs.best_score = gs.cv_results[gs.best_index].mean_test_score

\* C7: in each ridge grid search the selected alpha is one of the seven
\* candidates 10, 1, 0.1, 0.01, 0.001, 0.0001, 0, all seven are evaluated,
\* and the selected one has the lowest mean cross-validated MAE.
C7_RidgeGridSelection ==
    /\ ridge_gs.fitted => RidgeSelection(ridge_gs)
    /\ ridge_cat_gs.fitted => RidgeSelection(ridge_cat_gs)

\* Both ridge searches are fitted and the candidates of one have different
\* means, the selected one not being the first of the list.
C7_Witness ==
    /\ ridge_gs.fitted
    /\ ridge_cat_gs.fitted
    /\ ridge_cat_gs.best_index > 1
    /\ \E c \in 1..Len(alpha_range) :
          FracLess(ridge_cat_gs.cv_results[c].mean_test_score,
                   ridge_cat_gs.best_score)


\* The configuration of a fitted pipeline.
ParamsOf(m) == IF m.kind = "ridge" THEN m.alpha ELSE m.params

\* The coefficients u[k] = coef[k] / den of the ridge pipeline m satisfy the
\* normal equations of the samples X for the alpha of m: row j of
\* Xc'Xc + alpha diag(scale_^2), times u, is row j of Xc'y.
SolvesNormalEquations(m, X) ==
    LET cols == ImputedColumns(X, PreprocessingStats(X))
    IN \A j \in 1..Len(cols) :
          ZSum([k \in 1..Len(cols) |->
                  ZMul(NormalEntry(cols, PreprocessingStats(X), m.alpha, j, k)[1],
                       m.coef[k])])
             = ZMul(m.den, NormalRhs(cols, Target(X), m.alpha)[j][1])

\* The selected candidate has the greatest mean_test_score (the lowest mean
\* absolute error) and best_estimator_ is the pipeline with exactly that
\* configuration fitted on all the samples X given to the search: it has
\* seen the rows of X, its statistics are those of X and, for Ridge, its
\* coefficients solve the normal equations of X.
SelectedAndRefit(gs, X) ==
    /\ \A c \in 1..Len(gs.cv_results) :
          ~ FracLess(gs.cv_results[gs.best_index].mean_test_score,
                     gs.cv_results[c].mean_test_score)
    /\ gs.best_params = gs.cv_results[gs.best_index].params
    /\ ParamsOf(gs.best_estimator) = gs.best_params
    /\ gs.best_estimator.fit_idx = Idx(X)
    /\ gs.best_estimator.n = Len(X)
    /\ gs.best_estimator.stats = IF gs.best_estimator.kind = "ridge"
                                 THEN PreprocessingStats(X)
                                 ELSE ImputerStats(X)
    /\ gs.best_estimator.kind = "ridge" =>
          SolvesNormalEquations(gs.best_estimator, X)

\* C8: after a search the chosen configuration is the candidate with the
\* lowest mean cross-validated MAE, and the model of the final held-out
\* evaluation is the whole pipeline fitted again on the entire training
\* partition with exactly that configuration.
C8_SelectionAndRefit ==
    /\ pc \in {"cell29", "cell32", "cell38"} =>
          SelectedAndRefit(ridge_gs, drop_price(tr))
    /\ pc \in {"cell32", "cell38"} =>
          SelectedAndRefit(gb_gs, drop_price(tr))
    /\ pc \in {"cell44", "cell45", "cell47", "done"} =>
          SelectedAndRefit(ridge_cat_gs, drop_price_cat(tr))
    /\ pc = "done" =>
          /\ score_log = << Idx(te) >>
          /\ Len(stdout) = 1
          /\ stdout[1].value =
                mean_absolute_error(ridge_cat_gs.best_estimator,
                                    drop_price_cat(te))
          /\ stdout[1].exact =
                Determined(ridge_cat_gs.best_estimator, drop_price_cat(te))

\* The held-out value is printed, by a model whose alpha is 0, the last of
\* the list, fitted on at least five rows with two indicator columns that
\* are dependent (its system is singular and the fit is free).
C8_Witness ==
    /\ pc = "done"
    /\ ridge_cat_gs.best_index = Len(alpha_range)
    /\ ridge_cat_gs.best_estimator.free
    /\ Len(tr) >= cv
    /\ NCols(drop_price_cat(tr)) = 3
    /\ ZLess(ZZero, stdout[1].value.num)

\* C9: a reported mean absolute error is never negative, and for an empty
\* held-out partition no value is reported, 0 or any other: the score
\* raises and the execution ends in an error.
C9_ReportedMAE ==
    /\ \A i \in 1..Len(stdout) :
          /\ stdout[i].value.den > 0
          /\ ~ stdout[i].value.num.neg
    /\ \A i \in 1..Len(performances) :
          /\ performances[i].MAE_mean.den > 0
          /\ ~ performances[i].MAE_mean.num.neg
    /\ te = <<>> => stdout = <<>>
    /\ (te = <<>> /\ score_log # <<>>) => pc = "aborted"
    /\ (te # <<>> /\ score_log # <<>>) => (pc = "done" /\ Len(stdout) = 1)

\* Cell 47 has been executed with an empty held-out partition, after the
\* three searches and the records of cell 44: the execution ended in an
\* error and nothing was printed.
C9_Witness ==
    /\ te = <<>>
    /\ score_log = << {} >>
    /\ pc = "aborted"
    /\ stdout = <<>>
    /\ ridge_cat_gs.fitted
    /\ Len(tr) >= cv
    /\ Len(performances) = 3

Experiments == {"Ridge num", "Gradient boosting", "Ridge cat"}

\* C11: the table displayed has exactly one row for each of the three
\* experiments, holding the mean cross-validated MAE of its search, and its
\* rows are in non-decreasing order of that mean.
C11_TableSortedOneRowPerExperiment ==
    pc \in {"cell47", "done"} =>
        /\ Len(table) = 3
        /\ {table[i].Experiment : i \in 1..Len(table)} = Experiments
        /\ Range(table) = Range(performances)
        /\ \E i \in 1..3 : table[i].Experiment = "Ridge num"
                           /\ table[i].MAE_mean = FracNeg(ridge_gs.best_score)
        /\ \E i \in 1..3 : table[i].Experiment = "Gradient boosting"
                           /\ table[i].MAE_mean = FracNeg(gb_gs.best_score)
        /\ \E i \in 1..3 : table[i].Experiment = "Ridge cat"
                           /\ table[i].MAE_mean = FracNeg(ridge_cat_gs.best_score)
        /\ \A i \in 1..2 : ~ FracLess(table[i + 1].MAE_mean, table[i].MAE_mean)

\* The table is displayed and the sort has moved rows: the records were
\* not appended in the order of their means.
C11_Witness ==
    /\ pc = "cell47"
    /\ Len(table) = 3
    /\ table # performances
    /\ FracLess(table[1].MAE_mean, table[3].MAE_mean)


\* The candidates of a fitted search whose mean_test_score is the best one.
TiedBest(gs) ==
    {c \in 1..Len(gs.cv_results) :
        /\ ~ FracLess(gs.cv_results[c].mean_test_score, gs.best_score)
        /\ ~ FracLess(gs.best_score, gs.cv_results[c].mean_test_score)}

\* The selected and refitted candidate is the first, in search order, of
\* those with the best mean.
FirstOfTied(gs) ==
    /\ gs.best_index \in TiedBest(gs)
    /\ \A c \in TiedBest(gs) : gs.best_index <= c
    /\ \A c \in 1..Len(gs.cv_results) :
          ~ FracLess(gs.best_score, gs.cv_results[c].mean_test_score)
    /\ gs.best_params = gs.cv_results[gs.best_index].params
    /\ ParamsOf(gs.best_estimator) = gs.cv_results[gs.best_index].params

\* C12: when several candidates of a search have the best mean
\* cross-validated score, the one selected and refitted is the first of
\* them in search order (for the ridge grid the earliest alpha of the list).
C12_FirstOfTiedCandidates ==
    \A i \in FittedSearches : FirstOfTied(Searches[i])

\* A ridge search and the randomized search are fitted with several
\* candidates at the best mean (the numeric feature is the same in every
\* row, so every alpha predicts the mean price), while the candidates of
\* the other ridge search have different means.
C12_Witness ==
    /\ gb_gs.fitted
    /\ Cardinality(TiedBest(gb_gs)) >= 2
    /\ ridge_gs.fitted
    /\ Cardinality(TiedBest(ridge_gs)) = Len(alpha_range)
    /\ ridge_gs.best_params = alpha_range[1]
    /\ ridge_cat_gs.fitted
    /\ Cardinality(TiedBest(ridge_cat_gs)) = 1


\* Two fractions with positive denominators have the same value.
FracEq(a, b) == ~ FracLess(a, b) /\ ~ FracLess(b, a)

\* The mean and the deviation recorded for every candidate are those of
\* its cv split scores taken with equal weights.
PlainMeanAndStd(gs) ==
    \A c \in 1..Len(gs.cv_results) :
        /\ Len(gs.cv_results[c].splits) = cv
        /\ FracEq(gs.cv_results[c].mean_test_score,
                  mean_test_score_unweighted(gs.cv_results[c].splits))
        /\ FracEq(gs.cv_results[c].std_test_score_sq,
                  std_test_score_sq_unweighted(gs.cv_results[c].splits))

\* C13: the overall score of every candidate is the unweighted mean of its
\* 5 fold scores and the recorded standard deviation is the dispersion of
\* the 5 fold scores around that mean, also when the folds have unequal
\* sizes.
C13_UnweightedMeanAndStd ==
    \A i \in FittedSearches : PlainMeanAndStd(Searches[i])


\* The search space of the randomized search: learning rates in hundredths,
\* feature fractions in tenths.
InSearchSpace(params) ==
    /\ DOMAIN params =
          {"learning_rate", "max_depth", "max_features", "min_samples_leaf"}
    /\ params.learning_rate \in {10, 5, 2, 1}
    /\ params.max_depth \in {4, 5}
    /\ params.min_samples_leaf \in 3..16
    /\ params.max_features \in {10, 3, 1}

\* A pipeline of the randomized search: an imputer and the regressor, no
\* scaler, 3000 trees, the sampled parameters.
BoostingPipeline(steps, rgs, params) ==
    /\ steps = <<"imputer", "rgs">>
    /\ rgs.n_estimators = 3000
    /\ rgs.learning_rate = params.learning_rate
    /\ rgs.max_depth = params.max_depth
    /\ rgs.max_features = params.max_features
    /\ rgs.min_samples_leaf = params.min_samples_leaf

\* C14: the randomized search evaluates exactly 20 sampled candidates, each
\* inside the declared search space (learning rate 0.1, 0.05, 0.02 or 0.01,
\* depth 4 or 5, minimum leaf count 3..16, feature fraction 1.0, 0.3 or
\* 0.1); the tree count is 3000 for every candidate and no scaling step is
\* part of the pipeline.
C14_RandomizedSearchSpace ==
    gb_gs.fitted =>
        /\ Len(gb_gs.cv_results) = 20
        /\ \A c \in 1..Len(gb_gs.cv_results) :
              /\ InSearchSpace(gb_gs.cv_results[c].params)
              /\ Len(gb_gs.cv_results[c].splits) = 5
              /\ \A k \in 1..5 :
                    BoostingPipeline(gb_gs.cv_results[c].splits[k].steps,
                                     gb_gs.cv_results[c].splits[k].rgs,
                                     gb_gs.cv_results[c].params)
        /\ InSearchSpace(gb_gs.best_params)
        /\ BoostingPipeline(gb_gs.best_estimator.steps,
                            rgs_params(gb_gs.best_estimator),
                            gb_gs.best_params)

\* The randomized search is fitted and its candidates take both depths and
\* at least three learning rates.
C14_Witness ==
    /\ gb_gs.fitted
    /\ {gb_gs.cv_results[c].params.max_depth : c \in 1..Len(gb_gs.cv_results)}
          = {4, 5}
    /\ Cardinality({gb_gs.cv_results[c].params.learning_rate :
                      c \in 1..Len(gb_gs.cv_results)}) >= 3


\* The indicator columns that are all zero in the training rows of a split.
DegenerateColumns(split) ==
    {j \in 2..Len(split.stats) : split.stats[j].s = 0}

\* In split k of candidate c of the search on the encoded samples X, every
\* indicator column that is all zero in the training rows is scaled by 1,
\* the rows held out get a defined value for it (their own indicator, the
\* mean being 0), and the split is scored.
DegenerateSplitScored(gs, X, c, k) ==
    LET split == gs.cv_results[c].splits[k]
    IN \A j \in DegenerateColumns(split) :
          /\ split.stats[j].scale_sq = [num |-> 1, den |-> 1]
          /\ split.n_test = fold_size(Len(X), k)
          /\ split.test_score.den > 0
          /\ \A i \in kfold_test_positions(Len(X), k) :
                /\ transform_sq(X[i].f[j], split.stats[j]).den > 0
                /\ transform_sq(X[i].f[j], split.stats[j]) =
                      Frac(X[i].f[j] * X[i].f[j], 1)

\* C15: a fold of the encoded experiment whose training rows have an
\* indicator column that is all zero does not raise or abort the search:
\* the fold is fitted and scored and the column goes through preprocessing
\* as a finite value, with no division by a zero deviation.  A search
\* aborts only for fewer training rows than folds.
C15_DegenerateFoldScored ==
    /\ pc \in {"cell44", "cell45", "cell47", "done"} =>
          /\ ridge_cat_gs.fitted
          /\ \A c \in 1..Len(ridge_cat_gs.cv_results) :
                \A k \in 1..cv :
                    DegenerateSplitScored(ridge_cat_gs, drop_price_cat(tr), c, k)
    /\ (pc = "aborted" /\ score_log = <<>>) => Len(tr) < cv

\* The search on the encoded table is fitted, and in one of its splits an
\* indicator column is all zero in the training rows while a row held out
\* has the indicator set.
C15_Witness ==
    /\ pc = "cell44"
    /\ ridge_cat_gs.fitted
    /\ \E k \in 1..cv :
          \E j \in DegenerateColumns(ridge_cat_gs.cv_results[1].splits[k]) :
              \E i \in kfold_test_positions(Len(tr), k) :
                  drop_price_cat(tr)[i].f[j] = 1


\* The record of the search gs in performances holds the mean and the
\* deviation of the candidate gs selected, found by the lookup.
RecordOfSelected(name, gs) ==
    /\ std_score_index(gs) # 0
    /\ std_score_index(gs) = gs.best_index
    /\ \E i \in 1..Len(performances) :
          /\ performances[i].Experiment = name
          /\ performances[i].MAE_mean =
                FracNeg(gs.cv_results[gs.best_index].mean_test_score)
          /\ performances[i].MAE_std_sq =
                gs.cv_results[gs.best_index].std_test_score_sq

\* C16: in each performance record 'MAE std' is the deviation of the fold
\* scores of the very candidate the search selected, also when another
\* candidate has the same mean: the lookup by equality of mean_test_score
\* with best_score_, element [0], always finds an entry and it is that of
\* the selected candidate.
C16_StdOfSelectedCandidate ==
    /\ pc \in {"cell45", "cell47", "done"} =>
          /\ RecordOfSelected("Ridge num", ridge_gs)
          /\ RecordOfSelected("Gradient boosting", gb_gs)
          /\ RecordOfSelected("Ridge cat", ridge_cat_gs)
    /\ ~ (pc = "aborted" /\ ridge_cat_gs.fitted /\ score_log = <<>>)

\* The records are made; a ridge search and the randomized search had
\* several candidates with the mean of the selected one, and the fold
\* scores of the selected candidates differ.
C16_Witness ==
    /\ pc = "cell45"
    /\ Len(performances) = 3
    /\ Cardinality(mean_equals_best(ridge_gs)) >= 2
    /\ Cardinality(mean_equals_best(gb_gs)) >= 2
    /\ ZLess(ZZero, performances[1].MAE_std_sq.num)
    /\ ZLess(ZZero, performances[3].MAE_std_sq.num)


\* The number of rows of the 0.33 share of n rows, rounded up: the least m
\* with m >= 0.33 * n.
ShareRoundedUp(n) ==
    CHOOSE m \in 0..n : 100 * m >= 33 * n /\ \A l \in 0..(m - 1) : 100 * l < 33 * n

\* C17: the training and the held-out partition of a split are disjoint
\* and together hold every cleaned row exactly once; the held-out
\* partition has the 0.33 share of the rows, rounded up, and the training
\* partition the rest; so for the split of data and for that of data_cat.
C17_PartitionOfCleanedRows ==
    /\ \A k \in 1..Len(split_log) :
          /\ split_log[k].tr \cap split_log[k].te = {}
          /\ split_log[k].tr \cup split_log[k].te =
                {data[i].idx : i \in 1..Len(data)}
          /\ Cardinality(split_log[k].te) = ShareRoundedUp(Len(data))
          /\ Cardinality(split_log[k].tr) = Len(data) - ShareRoundedUp(Len(data))
    /\ pc \in {"cell10", "cell22", "cell41"} =>
          /\ Len(tr) + Len(te) = Len(data)
          /\ Cardinality(Idx(tr)) = Len(tr)
          /\ Cardinality(Idx(te)) = Len(te)
          /\ Idx(tr) = split_log[Len(split_log)].tr
          /\ Idx(te) = split_log[Len(split_log)].te

\* The encoded table of at least eight rows, one row of the file having
\* been dropped for its price, has just been split.
C17_Witness ==
    /\ pc = "cell41"
    /\ Len(split_log) = 2
    /\ Len(data) >= 8
    /\ Len(data) < Len(file)
    /\ Len(te) = 3

=============================================================================
